---- MODULE Spec2Model ----
(***************************************************************************)
(* jsonfmt: the streaming JSON re-formatter of src/src/lib.rs.             *)
(*                                                                         *)
(* A byte is modelled as a one-character string ("{", "\"", "1", ...);     *)
(* the byte 0x00 is the string BAD_CHAR.  A byte string is a sequence of   *)
(* bytes.  The BufReader over the byte source is the record br:            *)
(*   buf   the unconsumed bytes of the reader's buffer,                    *)
(*   rest  the bytes the source has not delivered yet,                     *)
(*   cuts  the numbers of remaining bytes at which a read of the source    *)
(*         ends (short reads),                                             *)
(*   cap   the capacity of the buffer,                                     *)
(*   eof   how many reads of the source returned 0 bytes.                  *)
(***************************************************************************)
EXTENDS Integers, Sequences, FiniteSets, TLC

\* ------------------------------------------------------------------ bounds
MaxWidth == 2      \* indent widths 0..MaxWidth
MaxCap == 3        \* small buffer capacities 1..MaxCap
MaxNodes == 3      \* nodes of a generated well-formed document
MaxLen == 3        \* length of an arbitrary input
MaxCutLen == 4     \* inputs up to this length are cut in every possible way
MaxEofReads == 3   \* reads at end-of-stream followed before the run is given up

\* ------------------------------------------------------------------ bytes
BAD_CHAR == "NUL"
QUOTE == "\""
BACKSLASH == "\\"
NL == "\n"
SP == " "

Min(a, b) == IF a < b THEN a ELSE b

Tail0(s, n) == SubSeq(s, n + 1, Len(s))     \* s without its first n bytes
Head0(s, n) == SubSeq(s, 1, n)              \* the first n bytes of s

\* IsWhitespace without the newline.
IsWhitespaceNoNewline(c) == c \in {"\t", " ", "\r"}
IsWhitespace(c) == c \in {"\t", " ", "\n", "\r"}
IsAsciiDigit(c) == c \in {"0", "1", "2", "3", "4", "5", "6", "7", "8", "9"}
\* IsNumberByte without the exponent letters.
IsNumberByteNoExponent(c) == IsAsciiDigit(c) \/ c \in {"-", ".", "+"}
IsNumberByte(c) == IsAsciiDigit(c) \/ c \in {"-", ".", "+", "e", "E"}

\* ------------------------------------------------------------------ BufReader
\* The source's read into a buffer of max bytes: the bytes up to the next cut.
SourceRead(c, max) ==
    LET n == Len(c.rest)
        stop == LET below == {k \in c.cuts : k < n}
                IN IF below = {} THEN 0 ELSE CHOOSE k \in below : \A j \in below : j <= k
    IN Min(max, n - stop)

FillBuf(c) ==
    IF c.buf # <<>> THEN c
    ELSE IF c.rest = <<>> THEN [c EXCEPT !.eof = @ + 1]
    ELSE LET n == SourceRead(c, c.cap)
         IN [c EXCEPT !.buf = Head0(c.rest, n), !.rest = Tail0(c.rest, n)]

Consume(c, n) == [c EXCEPT !.buf = Tail0(@, n)]

PeekChar(c) ==
    LET b == FillBuf(c).buf IN IF b = <<>> THEN BAD_CHAR ELSE b[1]

\* read_exact(n): [c, got, ok]; ok is FALSE when the source ends first.
RECURSIVE ReadExact(_, _, _)
ReadExact(c, n, got) ==
    IF n = 0 THEN [c |-> c, got |-> got, ok |-> TRUE]
    ELSE IF Len(c.buf) >= n
         THEN [c |-> Consume(c, n), got |-> got \o Head0(c.buf, n), ok |-> TRUE]
    ELSE IF c.buf # <<>>
         THEN ReadExact(Consume(c, Len(c.buf)), n - Len(c.buf), got \o c.buf)
    ELSE IF c.rest = <<>>
         THEN [c |-> [c EXCEPT !.eof = @ + 1], got |-> got, ok |-> FALSE]
    ELSE IF n >= c.cap
         THEN LET k == SourceRead(c, n)
              IN ReadExact([c EXCEPT !.rest = Tail0(@, k)], n - k, got \o Head0(c.rest, k))
    ELSE ReadExact(FillBuf(c), n, got)

\* ------------------------------------------------------------------ token copiers
\* The escape flag of write_string: the byte remembered as `prev`.
\* NextPrev remembering every byte, the second backslash of a pair too.
NextPrevLast(prev, c) == c
NextPrev(prev, c) == IF c = BACKSLASH /\ prev = BACKSLASH THEN BAD_CHAR ELSE c

\* The loop of write_string; c.buf is `buf`, i indexes it from 0.
RECURSIVE WriteStringLoop(_, _, _, _)
WriteStringLoop(c, i, prev, o) ==
    LET refill == i >= Len(c.buf)
        o1 == IF refill THEN o \o c.buf ELSE o
        c1 == IF refill THEN FillBuf(Consume(c, i)) ELSE c
        i1 == IF refill THEN 0 ELSE i
    IN IF refill /\ c1.buf = <<>>
       THEN [c |-> c1, out |-> o1, err |-> "eof"]
       ELSE LET ch == c1.buf[i1 + 1]
            IN IF ch = QUOTE /\ prev # BACKSLASH
               THEN [c |-> Consume(c1, i1 + 1), out |-> o1 \o Head0(c1.buf, i1 + 1),
                     err |-> "none"]
               ELSE WriteStringLoop(c1, i1 + 1, NextPrev(prev, ch), o1)

WriteString(c, o) == WriteStringLoop(FillBuf(c), 1, BAD_CHAR, o)

\* The loop of write_number.
RECURSIVE WriteNumberLoop(_, _, _)
WriteNumberLoop(c, i, o) ==
    LET refill == i >= Len(c.buf)
        o1 == IF refill THEN o \o c.buf ELSE o
        c1 == IF refill THEN FillBuf(Consume(c, i)) ELSE c
        i1 == IF refill THEN 0 ELSE i
    IN IF refill /\ c1.buf = <<>>
       THEN [c |-> c1, out |-> o1, err |-> "none"]
       ELSE IF ~IsNumberByte(c1.buf[i1 + 1])
            THEN [c |-> Consume(c1, i1), out |-> o1 \o Head0(c1.buf, i1), err |-> "none"]
            ELSE WriteNumberLoop(c1, i1 + 1, o1)

WriteNumber(c, o) == WriteNumberLoop(FillBuf(c), 1, o)

\* FirstMismatch naming the byte that was expected.
FirstMismatchExpected(expect, got) ==
    LET i == CHOOSE i \in 1..Len(expect) :
                 /\ expect[i] # got[i]
                 /\ \A j \in 1..(i - 1) : expect[j] = got[j]
    IN expect[i]

\* The first byte of got that differs from expect.
FirstMismatch(expect, got) ==
    LET i == CHOOSE i \in 1..Len(expect) :
                 /\ expect[i] # got[i]
                 /\ \A j \in 1..(i - 1) : expect[j] = got[j]
    IN got[i]

\* WriteExpected without the write of the matched bytes.
WriteExpectedNoWrite(c, o, expect) ==
    LET r == ReadExact(c, Len(expect), <<>>)
    IN IF ~r.ok THEN [c |-> r.c, out |-> o, err |-> "eof", ch |-> BAD_CHAR]
       ELSE IF expect # r.got
            THEN [c |-> r.c, out |-> o, err |-> "invalid", ch |-> FirstMismatch(expect, r.got)]
            ELSE [c |-> r.c, out |-> o, err |-> "none", ch |-> BAD_CHAR]

WriteExpected(c, o, expect) ==
    LET r == ReadExact(c, Len(expect), <<>>)
    IN IF ~r.ok THEN [c |-> r.c, out |-> o, err |-> "eof", ch |-> BAD_CHAR]
       ELSE IF expect # r.got
            THEN [c |-> r.c, out |-> o, err |-> "invalid", ch |-> FirstMismatch(expect, r.got)]
            ELSE [c |-> r.c, out |-> o \o expect, err |-> "none", ch |-> BAD_CHAR]

\* SkipWhitespaceIter returning at the end of the buffer.
SkipWhitespaceIterOnce(c) ==
    LET b == FillBuf(c)
        stops == {i \in 1..Len(b.buf) : ~IsWhitespace(b.buf[i])}
    IN IF stops # {}
       THEN LET i == CHOOSE i \in stops : \A j \in stops : i <= j
            IN [c |-> Consume(b, i - 1), ret |-> TRUE]
       ELSE [c |-> Consume(b, Len(b.buf)), ret |-> TRUE]

\* One pass of the loop of skip_whitespace: [c, ret]; ret is TRUE when it returns.
SkipWhitespaceIter(c) ==
    LET b == FillBuf(c)
        stops == {i \in 1..Len(b.buf) : ~IsWhitespace(b.buf[i])}
    IN IF stops # {}
       THEN LET i == CHOOSE i \in stops : \A j \in stops : i <= j
            IN [c |-> Consume(b, i - 1), ret |-> TRUE]
       ELSE [c |-> Consume(b, Len(b.buf)), ret |-> FALSE]

\* ------------------------------------------------------------------ Indent
OneTab(w) == [i \in 1..w |-> SP]
\* IndentPush leaving the prefix as it is.
IndentPushNone(p, w) == p
IndentPush(p, w) == p \o OneTab(w)
\* prefix.len() - one_tab.len() underflows: a panic with overflow checks,
\* a wrapped length (truncate does nothing) without.
PopUnderflows(p, w) == Len(p) < w
IndentPop(p, w) == IF PopUnderflows(p, w) THEN p ELSE Head0(p, Len(p) - w)

\* ------------------------------------------------------------------ format_json
\* What one arm of the match leaves: the reader, the sink, the indentation
\* prefix, the frame stack (its top is its last element), and the error if any.
Arm(b, o, p, st, err, ch) ==
    [br |-> b, out |-> o, prefix |-> p, stack |-> st, err |-> err, ch |-> ch]

Unexpected(b, o, p, st, c) == Arm(b, o, p, st, "unexpected", c)

Keyword(c) == IF c = "n" THEN <<"n", "u", "l", "l">>
              ELSE IF c = "t" THEN <<"t", "r", "u", "e">>
              ELSE <<"f", "a", "l", "s", "e">>

\* State::Value; st is the stack after the pop.
FrameValue(b, o, p, st, w) ==
    LET c == PeekChar(b)
    IN IF c = "{" \/ c = "["
       THEN Arm(Consume(FillBuf(b), 1), o \o <<c, NL>>, IndentPush(p, w),
                Append(st, IF c = "{" THEN "Object" ELSE "Array"), "none", BAD_CHAR)
       ELSE IF c = QUOTE
       THEN LET r == WriteString(b, o) IN Arm(r.c, r.out, p, st, r.err, BAD_CHAR)
       ELSE IF IsAsciiDigit(c) \/ c = "-"
       THEN LET r == WriteNumber(b, o) IN Arm(r.c, r.out, p, st, r.err, BAD_CHAR)
       ELSE IF c \in {"n", "t", "f"}
       THEN LET r == WriteExpected(b, o, Keyword(c)) IN Arm(r.c, r.out, p, st, r.err, r.ch)
       ELSE Unexpected(b, o, p, st, c)

\* FramePairElem asking for another element behind the ',' of an array.
FramePairElemStrict(state, b, o, p, st) ==
    LET c == PeekChar(b)
        resume == Append(st, IF state = "Pair" THEN "Object" ELSE "Array")
    IN IF c = ","
       THEN [br |-> Consume(FillBuf(b), 1),
             out |-> IF state = "Elem" THEN (o \o <<",", NL>>) \o p ELSE o \o <<",", NL>>,
             prefix |-> p,
             stack |-> IF state = "Elem" THEN st \o <<"Elem", "Value">> ELSE resume,
             err |-> "none", ch |-> BAD_CHAR]
       ELSE IF (state = "Pair" /\ c # "}") \/ (state = "Elem" /\ c # "]")
       THEN [br |-> b, out |-> o, prefix |-> p, stack |-> st, err |-> "unexpected", ch |-> c]
       ELSE [br |-> b, out |-> o \o <<NL>>, prefix |-> p, stack |-> resume,
             err |-> "none", ch |-> BAD_CHAR]

\* FramePairElem taking either closing bracket.
FramePairElemAnyCloser(state, b, o, p, st) ==
    LET c == PeekChar(b)
        resume == Append(st, IF state = "Pair" THEN "Object" ELSE "Array")
    IN IF c = ","
       THEN [br |-> Consume(FillBuf(b), 1), out |-> o \o <<",", NL>>, prefix |-> p,
             stack |-> resume, err |-> "none", ch |-> BAD_CHAR]
       ELSE IF c \notin {"}", "]"}
       THEN [br |-> b, out |-> o, prefix |-> p, stack |-> st, err |-> "unexpected", ch |-> c]
       ELSE [br |-> b, out |-> o \o <<NL>>, prefix |-> p, stack |-> resume,
             err |-> "none", ch |-> BAD_CHAR]

\* State::Pair | State::Elem
FramePairElem(state, b, o, p, st) ==
    LET c == PeekChar(b)
        resume == Append(st, IF state = "Pair" THEN "Object" ELSE "Array")
    IN IF c = ","
       THEN Arm(Consume(FillBuf(b), 1), o \o <<",", NL>>, p, resume, "none", BAD_CHAR)
       ELSE IF (state = "Pair" /\ c # "}") \/ (state = "Elem" /\ c # "]")
       THEN Unexpected(b, o, p, st, c)
       ELSE Arm(b, o \o <<NL>>, p, resume, "none", BAD_CHAR)

\* State::Object with '"' next: the key, up to the second skip_whitespace.
ObjectKey(b, o, p, st) ==
    LET r == WriteString(b, o \o p) IN Arm(r.c, r.out, p, st, r.err, BAD_CHAR)

\* State::Object after the key: the ':' and the frames of the member.
ObjectColon(b, o, p, st) ==
    LET r == WriteExpected(b, o, <<":">>)
    IN IF r.err # "none" THEN Arm(r.c, r.out, p, st, r.err, r.ch)
       ELSE Arm(r.c, r.out \o <<SP>>, p, st \o <<"Pair", "Value">>, "none", BAD_CHAR)

\* CloseContainer writing the prefix before the pop.
CloseContainerDeeper(c, b, o, p, st, w, checks) ==
    LET q == IndentPop(p, w)
    IN IF checks /\ PopUnderflows(p, w)
       THEN [br |-> Consume(FillBuf(b), 1), out |-> o, prefix |-> p, stack |-> st,
             err |-> "panic", ch |-> BAD_CHAR]
       ELSE [br |-> Consume(FillBuf(b), 1), out |-> (o \o p) \o <<c>>, prefix |-> q,
             stack |-> st, err |-> "none", ch |-> BAD_CHAR]

\* The closing bracket c of State::Object and State::Array.
CloseContainer(c, b, o, p, st, w, checks) ==
    LET q == IndentPop(p, w)
    IN IF checks /\ PopUnderflows(p, w)
       THEN Arm(Consume(FillBuf(b), 1), o, p, st, "panic", BAD_CHAR)
       ELSE Arm(Consume(FillBuf(b), 1), (o \o q) \o <<c>>, q, st, "none", BAD_CHAR)

\* ArrayElem without the indentation.
ArrayElemNoIndent(b, o, p, st) ==
    [br |-> b, out |-> o, prefix |-> p, stack |-> st \o <<"Elem", "Value">>,
     err |-> "none", ch |-> BAD_CHAR]

\* State::Array with another byte than ']' next.
ArrayElem(b, o, p, st) == Arm(b, o \o p, p, st \o <<"Elem", "Value">>, "none", BAD_CHAR)

\* ------------------------------------------------------------------ format_json_fast
\* One pass of the loop of format_json_fast; c.buf is buf[i..].  err is
\* "break" when the loop ends, "panic" when Indent::pop underflows with
\* overflow checks.
FastIter(b, o, p, nl, w, checks) ==
    LET b1 == IF b.buf = <<>> THEN FillBuf(b) ELSE b
    IN IF b1.buf = <<>>
       THEN [br |-> b1, out |-> o, prefix |-> p, new_line |-> nl, err |-> "break"]
       ELSE
       LET c == b1.buf[1]
           closer == c = "}" \/ c = "]"
           p1 == IF closer THEN IndentPop(p, w) ELSE p
           o1 == IF closer /\ ~nl THEN (o \o <<NL>>) \o p1 ELSE o
           o2 == IF nl THEN o1 \o p1 ELSE o1
           b2 == Consume(b1, 1)
       IN IF closer /\ checks /\ PopUnderflows(p, w)
          THEN [br |-> b1, out |-> o, prefix |-> p, new_line |-> nl, err |-> "panic"]
          ELSE IF c = QUOTE
          THEN LET r == WriteString(b1, o2)
               IN [br |-> IF r.err = "none" THEN FillBuf(r.c) ELSE r.c, out |-> r.out,
                   prefix |-> p1, new_line |-> FALSE, err |-> r.err]
          ELSE IF c = "{" \/ c = "["
          THEN [br |-> b2, out |-> o2 \o <<c, NL>>, prefix |-> IndentPush(p1, w),
                new_line |-> TRUE, err |-> "none"]
          ELSE IF c = ","
          THEN [br |-> b2, out |-> o2 \o <<",", NL>>, prefix |-> p1,
                new_line |-> TRUE, err |-> "none"]
          ELSE IF c = ":"
          THEN [br |-> b2, out |-> o2 \o <<":", SP>>, prefix |-> p1,
                new_line |-> FALSE, err |-> "none"]
          ELSE IF c \in {"\t", " ", "\n", "\r"}
          THEN [br |-> b2, out |-> o2, prefix |-> p1, new_line |-> FALSE, err |-> "none"]
          ELSE [br |-> b2, out |-> o2 \o <<c>>, prefix |-> p1,
                new_line |-> FALSE, err |-> "none"]

\* ------------------------------------------------------------------ inputs
BufCap == 256

\* The fixture of the tests.
TEST_CASE1_IN ==
    <<"{", " ", "\"", "a", "\"", " ", ":", " ", "1", " ", ",", " ", "\"", "b", "\"",
      ":", " ", "\"", "t", "e", "s", "t", " ", "\\", "\\", "\"", ",", " ", "\"", "c",
      "\"", ":", " ", "f", "a", "l", "s", "e", ",", " ", "\"", "d", "\"", ":", " ",
      "n", "u", "l", "l", ",", " ", "\"", "e", "\"", ":", " ", "1", ".", "2", "3", "4",
      "e", "5", ",", " ", "\"", "f", "\"", ":", " ", " ", "[", " ", "1", ",", " ", "2",
      " ", " ", "]", " ", ",", " ", "\"", "g", "\"", " ", " ", " ", ":", " ", "{", "}",
      ",", "\"", "h", "\"", ":", " ", "[", "[", "[", "[", "]", "]", "]", "]", "}">>

TEST_CASE1_OUT ==
    <<"{", "\n", " ", " ", " ", " ", "\"", "a", "\"", ":", " ", "1", ",", "\n", " ",
      " ", " ", " ", "\"", "b", "\"", ":", " ", "\"", "t", "e", "s", "t", " ", "\\",
      "\\", "\"", ",", "\n", " ", " ", " ", " ", "\"", "c", "\"", ":", " ", "f", "a",
      "l", "s", "e", ",", "\n", " ", " ", " ", " ", "\"", "d", "\"", ":", " ", "n",
      "u", "l", "l", ",", "\n", " ", " ", " ", " ", "\"", "e", "\"", ":", " ", "1",
      ".", "2", "3", "4", "e", "5", ",", "\n", " ", " ", " ", " ", "\"", "f", "\"",
      ":", " ", "[", "\n", " ", " ", " ", " ", " ", " ", " ", " ", "1", ",", "\n", " ",
      " ", " ", " ", " ", " ", " ", " ", "2", "\n", " ", " ", " ", " ", "]", ",", "\n",
      " ", " ", " ", " ", "\"", "g", "\"", ":", " ", "{", "\n", " ", " ", " ", " ",
      "}", ",", "\n", " ", " ", " ", " ", "\"", "h", "\"", ":", " ", "[", "\n", " ",
      " ", " ", " ", " ", " ", " ", " ", "[", "\n", " ", " ", " ", " ", " ", " ", " ",
      " ", " ", " ", " ", " ", "[", "\n", " ", " ", " ", " ", " ", " ", " ", " ", " ",
      " ", " ", " ", " ", " ", " ", " ", "[", "\n", " ", " ", " ", " ", " ", " ", " ",
      " ", " ", " ", " ", " ", " ", " ", " ", " ", "]", "\n", " ", " ", " ", " ", " ",
      " ", " ", " ", " ", " ", " ", " ", "]", "\n", " ", " ", " ", " ", " ", " ", " ",
      " ", "]", "\n", " ", " ", " ", " ", "]", "\n", "}">>

\* The width the tests format the fixture with.
TestIndent == 4

\* Well-formed documents as trees: a scalar with its bytes, or an array or an
\* object with its items (and their keys).
Scalar(b) == [k |-> "scalar", b |-> b, keys |-> <<>>, items |-> <<>>]
Array(items) == [k |-> "array", b |-> <<>>, keys |-> <<>>, items |-> items]
Object(keys, items) == [k |-> "object", b |-> <<>>, keys |-> keys, items |-> items]

Str(bytes) == (<<QUOTE>> \o bytes) \o <<QUOTE>>

\* The scalar and the key a generated document has at the i-th place of a
\* container.
ScalarSamples ==
    <<<<"1">>, <<"n", "u", "l", "l">>, Str(<<"a">>), <<"-", "2", "e", "1">>,
      Str(<<BACKSLASH, QUOTE>>), <<"t", "r", "u", "e">>, Str(<<BACKSLASH, BACKSLASH>>)>>
ScalarAt(i) == ScalarSamples[((i - 1) % Len(ScalarSamples)) + 1]
KeySamples == <<Str(<<"a">>), Str(<<"b", SP, BACKSLASH, QUOTE>>), Str(<<>>)>>
KeyAt(i) == KeySamples[((i - 1) % Len(KeySamples)) + 1]

\* The trees of exactly n nodes at place i, and the sequences of trees of n
\* nodes in all whose first tree is at place i.
RECURSIVE TreesOf(_, _), ForestsOf(_, _)
TreesOf(n, i) ==
    (IF n = 1 THEN {Scalar(ScalarAt(i))} ELSE {})
    \cup {Array(f) : f \in ForestsOf(n - 1, 1)}
    \cup {Object([j \in 1..Len(f) |-> KeyAt(j)], f) : f \in ForestsOf(n - 1, 1)}
ForestsOf(n, i) ==
    IF n = 0 THEN {<<>>}
    ELSE UNION {{<<t>> \o f : t \in TreesOf(m, i), f \in ForestsOf(n - m, i + 1)} :
                m \in 1..n}

Trees == UNION {TreesOf(n, i) : n \in 1..MaxNodes, i \in 1..Len(ScalarSamples)}

\* The bytes of a tree, with the whitespace ws after every token.
RECURSIVE Render(_, _), RenderItems(_, _, _)
Render(t, ws) ==
    IF t.k = "scalar" THEN t.b \o ws
    ELSE (<<IF t.k = "object" THEN "{" ELSE "[">> \o ws)
         \o RenderItems(t, 1, ws)
         \o (<<IF t.k = "object" THEN "}" ELSE "]">> \o ws)
RenderItems(t, i, ws) ==
    IF i > Len(t.items) THEN <<>>
    ELSE (IF i > 1 THEN <<",">> \o ws ELSE <<>>)
         \o (IF t.k = "object" THEN (t.keys[i] \o ws) \o (<<":">> \o ws) ELSE <<>>)
         \o Render(t.items[i], ws)
         \o RenderItems(t, i + 1, ws)

WsStyles == {<<>>, <<SP>>, <<"\r", NL, "\t">>}

\* The tree of the fixture.
TEST_CASE1_TREE ==
    Object(<<Str(<<"a">>), Str(<<"b">>), Str(<<"c">>), Str(<<"d">>), Str(<<"e">>),
             Str(<<"f">>), Str(<<"g">>), Str(<<"h">>)>>,
           <<Scalar(<<"1">>),
             Scalar(Str(<<"t", "e", "s", "t", SP, BACKSLASH, BACKSLASH>>)),
             Scalar(<<"f", "a", "l", "s", "e">>),
             Scalar(<<"n", "u", "l", "l">>),
             Scalar(<<"1", ".", "2", "3", "4", "e", "5">>),
             Array(<<Scalar(<<"1">>), Scalar(<<"2">>)>>),
             Object(<<>>, <<>>),
             Array(<<Array(<<Array(<<Array(<<>>)>>)>>)>>)>>)

\* The well-formed inputs, each with its tree.
Docs == {[inp |-> Render(t, ws), tree |-> t] : t \in Trees, ws \in WsStyles}
        \cup {[inp |-> TEST_CASE1_IN, tree |-> TEST_CASE1_TREE]}

\* Any bytes: every string of up to MaxLen bytes of the alphabet, and every
\* generated document cut short or with one byte left out.
Alphabet == {"[", "]", "{", "}", QUOTE, BACKSLASH, ":", ",", SP, "1", BAD_CHAR}
Strings == UNION {[1..n -> Alphabet] : n \in 0..MaxLen}
Compact == {Render(t, <<>>) : t \in Trees}
Prefixes == UNION {{Head0(r, n) : n \in 0..Len(r)} : r \in Compact}
WithoutByte(r, i) == Head0(r, i - 1) \o Tail0(r, i)
Damaged == UNION {{WithoutByte(r, i) : i \in 1..Len(r)} : r \in Compact}
\* The malformed and the literal examples the specification names.
Examples == {<<"n", "u", "l", ",">>,
             Str(<<"t", "e", "s", "t", SP, BACKSLASH, BACKSLASH>>),
             <<"1", "2">>,
             <<"{", QUOTE, "a", QUOTE, ":", "1", "]">>,
             <<"[", "1", ",", "]">>,
             <<"{", QUOTE, "a", QUOTE, ":", "1", ",", "}">>,
             <<"[", ",", "1", "]">>,
             <<"[", "1", ",", ",", "2", "]">>}
AnyInputs == Strings \cup Prefixes \cup Damaged \cup Examples

\* The ways an input is delivered: a short input cut into chunks in every
\* way, a longer one whole or through a small buffer.
Deliveries(inp) ==
    IF Len(inp) <= MaxCutLen
    THEN {[cuts |-> C, cap |-> BufCap] : C \in SUBSET (1..(Len(inp) - 1))}
    ELSE {[cuts |-> {}, cap |-> c] : c \in (1..MaxCap) \cup {BufCap}}

\* ------------------------------------------------------------------ state
VARIABLES
    input,      \* the bytes of the source of this call
    alg,        \* "json": format_json, "fast": format_json_fast
    width,      \* the indent width (the length of one_tab)
    checks,     \* the overflow checks of the build, "on" or "off": "unknown"
                \* until a subtraction underflows
    br,         \* the BufReader
    out,        \* the bytes written to the sink
    prefix,     \* Indent.prefix
    stack,      \* the frame stack of format_json
    new_line,   \* new_line of format_json_fast
    pc,         \* "skip", "match", "key_skip", "colon", "fast", "done"
    status,     \* "running", "ok", "eof", "unexpected", "invalid", "panic"
    errChar,    \* the byte an error names
    run,        \* "first", or what the second call is: "other", "again", "whole"
    prev,       \* the first call, once it is over
    proc        \* the process of main.rs around the call, if there is one

vars == <<input, alg, width, checks, br, out, prefix, stack, new_line, pc, status,
          errChar, run, prev, proc>>

NoPrev == [input |-> <<>>, alg |-> "none", outcome |-> "none", out |-> <<>>,
           ch |-> BAD_CHAR, consumed |-> 0]

\* No process: the call is made as the tests make it.
NoProc == [mode |-> "lib", write_back |-> FALSE, named |-> FALSE, sink |-> "buf",
           file |-> <<>>, created |-> FALSE, stderr |-> <<>>, exited |-> FALSE, code |-> 0]

NewReader(inp, d) == [buf |-> <<>>, rest |-> inp, cuts |-> d.cuts, cap |-> d.cap, eof |-> 0]

\* The entry of format_json (line 144) and of format_json_fast (lines 222-224).
StartCall(inp, a, w, d) ==
    /\ input' = inp
    /\ alg' = a
    /\ width' = w
    /\ br' = IF a = "fast" THEN FillBuf(NewReader(inp, d)) ELSE NewReader(inp, d)
    /\ out' = <<>>
    /\ prefix' = <<>>
    /\ stack' = IF a = "json" THEN <<"Value">> ELSE <<>>
    /\ new_line' = FALSE
    /\ pc' = IF a = "json" THEN "skip" ELSE "fast"
    /\ status' = "running"
    /\ errChar' = BAD_CHAR

InitWith(inputs, widths) ==
    /\ \E inp \in inputs, a \in {"json", "fast"}, w \in widths :
         \E d \in Deliveries(inp) :
            /\ input = inp
            /\ alg = a
            /\ width = w
            /\ br = IF a = "fast" THEN FillBuf(NewReader(inp, d)) ELSE NewReader(inp, d)
            /\ stack = IF a = "json" THEN <<"Value">> ELSE <<>>
            /\ pc = IF a = "json" THEN "skip" ELSE "fast"
    /\ checks = "unknown"
    /\ out = <<>>
    /\ prefix = <<>>
    /\ new_line = FALSE
    /\ status = "running"
    /\ errChar = BAD_CHAR
    /\ run = "first"
    /\ prev = NoPrev
    /\ proc = NoProc

AtEof == br.buf = <<>> /\ br.rest = <<>>
Top == stack[Len(stack)]
Popped == Head0(stack, Len(stack) - 1)
Consumed == Len(input) - Len(br.buf) - Len(br.rest)

\* The step about to be taken runs Indent::pop on a prefix shorter than one_tab
\* (line 131 underflows): the build then shows whether it checks overflow.
Underflows ==
    /\ status = "running"
    /\ PopUnderflows(prefix, width)
    /\ \/ pc = "fast" /\ PeekChar(br) \in {"}", "]"} /\ FillBuf(br).buf # <<>>
       \/ pc = "match" /\ <<Top, PeekChar(br)>> \in {<<"Object", "}">>, <<"Array", "]">>}
Build(chk) ==
    /\ chk \in (IF checks = "unknown" /\ Underflows THEN {"on", "off"} ELSE {checks})
    /\ checks' = chk

\* Apply skipping the whitespace behind the top-level value.
ApplySkippingAhead(r) ==
    /\ br' = IF r.err = "none" /\ r.stack = <<>> THEN SkipWhitespaceIter(r.br).c ELSE r.br
    /\ out' = r.out
    /\ prefix' = r.prefix
    /\ stack' = r.stack
    /\ errChar' = r.ch
    /\ status' = IF r.err # "none" THEN r.err
                 ELSE IF r.stack = <<>> THEN "ok" ELSE "running"
    /\ pc' = IF r.err # "none" \/ r.stack = <<>> THEN "done" ELSE "skip"
    /\ UNCHANGED <<input, alg, width, new_line, run, prev, proc>>

\* An arm of format_json's match is done: the error returns, an empty stack
\* ends the loop, anything else goes round to skip_whitespace.
Apply(r) ==
    /\ br' = r.br
    /\ out' = r.out
    /\ prefix' = r.prefix
    /\ stack' = r.stack
    /\ errChar' = r.ch
    /\ status' = IF r.err # "none" THEN r.err
                 ELSE IF r.stack = <<>> THEN "ok" ELSE "running"
    /\ pc' = IF r.err # "none" \/ r.stack = <<>> THEN "done" ELSE "skip"
    /\ UNCHANGED <<input, alg, width, new_line, run, prev, proc>>

\* skip_whitespace, one pass of its loop (lines 26-37), called at line 146
\* or at line 185.
SkipWhitespace ==
    /\ status = "running"
    /\ pc \in {"skip", "key_skip"}
    /\ ~(AtEof /\ br.eof >= MaxEofReads)
    /\ LET r == SkipWhitespaceIter(br)
       IN /\ br' = r.c
          /\ pc' = IF ~r.ret THEN pc ELSE IF pc = "skip" THEN "match" ELSE "colon"
    /\ UNCHANGED <<input, alg, width, checks, out, prefix, stack, new_line, status,
                   errChar, run, prev, proc>>

MatchValue ==
    /\ status = "running" /\ pc = "match" /\ Top = "Value"
    /\ Apply(FrameValue(br, out, prefix, Popped, width))
    /\ UNCHANGED checks

MatchPairElem ==
    /\ status = "running" /\ pc = "match" /\ Top \in {"Pair", "Elem"}
    /\ Apply(FramePairElem(Top, br, out, prefix, Popped))
    /\ UNCHANGED checks

MatchObject ==
    /\ status = "running" /\ pc = "match" /\ Top = "Object"
    /\ LET c == PeekChar(br)
       IN IF c = QUOTE
          THEN LET r == ObjectKey(br, out, prefix, Popped)
               IN /\ br' = r.br
                  /\ out' = r.out
                  /\ stack' = r.stack
                  /\ status' = IF r.err # "none" THEN r.err ELSE "running"
                  /\ pc' = IF r.err # "none" THEN "done" ELSE "key_skip"
                  /\ UNCHANGED <<input, alg, width, checks, prefix, new_line, errChar,
                                 run, prev, proc>>
          ELSE IF c = "}"
          THEN \E chk \in {"unknown", "on", "off"} :
                  /\ Build(chk)
                  /\ Apply(CloseContainer(c, br, out, prefix, Popped, width, chk = "on"))
          ELSE Apply(Unexpected(br, out, prefix, Popped, c)) /\ UNCHANGED checks

MatchObjectColon ==
    /\ status = "running" /\ pc = "colon"
    /\ Apply(ObjectColon(br, out, prefix, stack))
    /\ UNCHANGED checks

MatchArray ==
    /\ status = "running" /\ pc = "match" /\ Top = "Array"
    /\ LET c == PeekChar(br)
       IN IF c = "]"
          THEN \E chk \in {"unknown", "on", "off"} :
                  /\ Build(chk)
                  /\ Apply(CloseContainer(c, br, out, prefix, Popped, width, chk = "on"))
          ELSE Apply(ArrayElem(br, out, prefix, Popped)) /\ UNCHANGED checks

\* One pass of the loop of format_json_fast (lines 225-273).
FastStep ==
    /\ status = "running" /\ pc = "fast"
    /\ \E chk \in {"unknown", "on", "off"} :
       LET r == FastIter(br, out, prefix, new_line, width, chk = "on")
       IN /\ Build(chk)
          /\ br' = r.br
          /\ out' = r.out
          /\ prefix' = r.prefix
          /\ new_line' = r.new_line
          /\ status' = IF r.err = "break" THEN "ok"
                       ELSE IF r.err = "none" THEN "running" ELSE r.err
          /\ pc' = IF r.err = "none" THEN "fast" ELSE "done"
    /\ UNCHANGED <<input, alg, width, stack, errChar, run, prev, proc>>

\* ------------------------------------------------------------------ a second call
\* skip_whitespace at end-of-stream goes round its loop without a change:
\* after MaxEofReads reads of the ended source the call is given up.
GivenUp == status = "running" /\ pc \in {"skip", "key_skip"} /\ AtEof
           /\ br.eof >= MaxEofReads
Over == status # "running" \/ GivenUp
Outcome == IF status = "running" THEN "hang" ELSE status

ThisCall == [input |-> input, alg |-> alg, outcome |-> Outcome, out |-> out,
             ch |-> errChar, consumed |-> Consumed]

Second(kind) ==
    /\ run = "first"
    /\ Over
    /\ run' = kind
    /\ prev' = ThisCall
    /\ UNCHANGED <<checks, proc>>

\* format_json_fast after format_json, on the same input delivered the same
\* way.
RunOtherAlg ==
    /\ alg = "json"
    /\ Second("other")
    /\ StartCall(input, "fast", width, [cuts |-> br.cuts, cap |-> br.cap])

\* The same formatter on what it wrote.
RunOnOutput ==
    /\ status = "ok"
    /\ Second("again")
    /\ StartCall(out, alg, width, [cuts |-> {}, cap |-> br.cap])

\* The same formatter on the same input, delivered in one chunk.
RunWhole ==
    /\ br.cuts # {} \/ br.cap < Len(input)
    /\ Second("whole")
    /\ StartCall(input, alg, width, [cuts |-> {}, cap |-> BufCap])

Next ==
    \/ SkipWhitespace
    \/ MatchValue
    \/ MatchPairElem
    \/ MatchObject
    \/ MatchObjectColon
    \/ MatchArray
    \/ FastStep
    \/ RunOtherAlg
    \/ RunOnOutput
    \/ RunWhole

\* The calls on well-formed documents.
Init == InitWith({d.inp : d \in Docs}, (0..MaxWidth) \cup {TestIndent})
Spec == Init /\ [][Next]_vars

\* The calls on any bytes.
InitAny == InitWith(AnyInputs, {0, MaxWidth})
SpecAny == InitAny /\ [][Next]_vars

\* One call on any bytes.
NextCall ==
    \/ SkipWhitespace
    \/ MatchValue
    \/ MatchPairElem
    \/ MatchObject
    \/ MatchObjectColon
    \/ MatchArray
    \/ FastStep
SpecCall == InitAny /\ [][NextCall]_vars

\* ------------------------------------------------------------------ main
\* The indent width without -i.
DefaultIndent == 2

\* Sink writing to standard output whatever the flags.
SinkStdout(write_back, named) == "stdout"

\* The sink of the call (lines 62-68): the in-memory buffer with -w and an
\* input file, standard output otherwise.
Sink(write_back, named) == IF write_back /\ named THEN "buf" ELSE "stdout"

\* What the call has written to the buffer and to standard output.
Buf == IF proc.sink = "buf" THEN out ELSE <<>>
Stdout == IF proc.sink = "stdout" THEN out ELSE <<>>

\* main up to the call (lines 22-74): -f, -i, -w and the input file are any;
\* the file, or standard input, holds the input and is read through a buffer
\* of 256 bytes.
InitCli ==
    /\ \E inp \in AnyInputs, a \in {"json", "fast"}, w \in {0, DefaultIndent},
          wb \in BOOLEAN, named \in BOOLEAN :
            /\ input = inp
            /\ alg = a
            /\ width = w
            /\ br = LET r == NewReader(inp, [cuts |-> {}, cap |-> BufCap])
                    IN IF a = "fast" THEN FillBuf(r) ELSE r
            /\ stack = IF a = "json" THEN <<"Value">> ELSE <<>>
            /\ pc = IF a = "json" THEN "skip" ELSE "fast"
            /\ proc = [mode |-> "cli", write_back |-> wb, named |-> named,
                       sink |-> Sink(wb, named), file |-> IF named THEN inp ELSE <<>>,
                       created |-> FALSE, stderr |-> <<>>, exited |-> FALSE, code |-> 0]
    /\ checks = "unknown"
    /\ out = <<>>
    /\ prefix = <<>>
    /\ new_line = FALSE
    /\ status = "running"
    /\ errChar = BAD_CHAR
    /\ run = "first"
    /\ prev = NoPrev

\* The call returned an error (lines 75-77): fatal prints it and exits with 1.
MainFatal ==
    /\ proc.mode = "cli" /\ ~proc.exited
    /\ status \in {"eof", "unexpected", "invalid"}
    /\ proc' = [proc EXCEPT !.stderr = <<status, errChar>>, !.exited = TRUE, !.code = 1]
    /\ UNCHANGED <<input, alg, width, checks, br, out, prefix, stack, new_line, pc,
                   status, errChar, run, prev>>

\* The call returned Ok (lines 79-84): with -w and an input file the file is
\* created anew and the buffer written to it; File::create may fail, and
\* write_all may fail after any part of the buffer; then main ends.
MainWriteBack ==
    /\ proc.mode = "cli" /\ ~proc.exited
    /\ status = "ok"
    /\ IF proc.named /\ proc.write_back
       THEN \/ proc' = [proc EXCEPT !.file = Buf, !.created = TRUE, !.exited = TRUE]
            \/ proc' = [proc EXCEPT !.stderr = <<"io", BAD_CHAR>>, !.exited = TRUE,
                                     !.code = 1]
            \/ \E n \in 0..(Len(Buf) - 1) :
                  proc' = [proc EXCEPT !.file = Head0(Buf, n), !.created = TRUE,
                                       !.stderr = <<"io", BAD_CHAR>>, !.exited = TRUE,
                                       !.code = 1]
       ELSE proc' = [proc EXCEPT !.exited = TRUE]
    /\ UNCHANGED <<input, alg, width, checks, br, out, prefix, stack, new_line, pc,
                   status, errChar, run, prev>>

NextCli ==
    \/ NextCall
    \/ MainFatal
    \/ MainWriteBack
SpecCli == InitCli /\ [][NextCli]_vars

\* ------------------------------------------------------------------ the reference layout
Spaces(n) == [i \in 1..n |-> SP]

\* The pretty-printed form of a tree at nesting depth d, indent width w.
RECURSIVE Pretty(_, _, _), PrettyItems(_, _, _, _)
Pretty(t, w, d) ==
    IF t.k = "scalar" THEN t.b
    ELSE (<<IF t.k = "object" THEN "{" ELSE "[", NL>> \o PrettyItems(t, 1, w, d + 1))
         \o (Spaces(w * d) \o <<IF t.k = "object" THEN "}" ELSE "]">>)
PrettyItems(t, i, w, d) ==
    IF i > Len(t.items) THEN <<>>
    ELSE (Spaces(w * d) \o (IF t.k = "object" THEN t.keys[i] \o <<":", SP>> ELSE <<>>))
         \o Pretty(t.items[i], w, d)
         \o (IF i < Len(t.items) THEN <<",", NL>> ELSE <<NL>>)
         \o PrettyItems(t, i + 1, w, d)

\* C1: on every well-formed input format_json succeeds and writes the
\* reference layout of the document for the indent width: a newline after each
\* opening bracket, each member on its own line behind width x depth spaces,
\* ": " after each key, each "," last on its line, each closing bracket on its
\* own line at the indentation of the line that opened it, no newline at the
\* end.  The fixture of the tests is one instance (width 4, TEST_CASE1_OUT),
\* and format_json_fast writes the same bytes for the fixture.
ReferenceLayout ==
    Over =>
        /\ \A d \in Docs :
              (d.inp = input /\ (alg = "json" \/ input = TEST_CASE1_IN))
                  => (status = "ok" /\ out = Pretty(d.tree, width, 0))
        /\ (input = TEST_CASE1_IN /\ width = TestIndent) => out = TEST_CASE1_OUT

ReferenceLayoutWitness ==
    /\ run = "first" /\ alg = "json" /\ status = "ok"
    /\ input = TEST_CASE1_IN /\ width = TestIndent /\ out = TEST_CASE1_OUT

\* ------------------------------------------------------------------ reading bytes as tokens
Blank == {SP, "\t", NL, "\r"}

\* A scan of the bytes s from its i-th on: sig, the bytes without the blanks
\* outside string literals; mode, "out" outside a string literal, "str" inside
\* one, "esc" behind a backslash inside one; depth, the opening minus the
\* closing brackets outside string literals.
RECURSIVE ScanFrom(_, _, _, _, _)
ScanFrom(s, i, mode, sig, depth) ==
    IF i > Len(s) THEN [sig |-> sig, mode |-> mode, depth |-> depth]
    ELSE LET c == s[i]
         IN IF mode = "esc" THEN ScanFrom(s, i + 1, "str", Append(sig, c), depth)
            ELSE IF mode = "str"
            THEN ScanFrom(s, i + 1,
                          IF c = QUOTE THEN "out" ELSE IF c = BACKSLASH THEN "esc" ELSE "str",
                          Append(sig, c), depth)
            ELSE IF c \in Blank THEN ScanFrom(s, i + 1, "out", sig, depth)
            ELSE ScanFrom(s, i + 1, IF c = QUOTE THEN "str" ELSE "out", Append(sig, c),
                          IF c \in {"{", "["} THEN depth + 1
                          ELSE IF c \in {"}", "]"} THEN depth - 1 ELSE depth)
Scan(s) == ScanFrom(s, 1, "out", <<>>, 0)

ConsumedInput == Head0(input, Consumed)
HasSuffix(s, x) == Len(s) >= Len(x) /\ Tail0(s, Len(s) - Len(x)) = x

\* C2: on every well-formed input, whatever the whitespace between its tokens
\* (inside empty containers too), the indent width and the capacity of the
\* buffer, format_json_fast writes the bytes format_json writes.
AlgorithmsAgree ==
    (run = "other" /\ Over) => (Outcome = prev.outcome /\ out = prev.out)

\* C3: when format_json succeeds on an input and writes y, format_json on y
\* with the same width succeeds and writes y.
JsonIdempotent ==
    (run = "again" /\ alg = "json" /\ Over) => (status = "ok" /\ out = input)

JsonIdempotentWitness ==
    /\ run = "again" /\ alg = "json" /\ status = "ok"
    /\ prev.input = <<"[", "1", "]">> /\ width = 2
    /\ input = <<"[", NL, SP, SP, "1", NL, "]">> /\ out = input

\* C4: when format_json_fast writes y for a well-formed input (empty objects
\* and arrays included), format_json_fast on y with the same width writes y.
FastIdempotent ==
    (run = "again" /\ alg = "fast" /\ Over) => (status = "ok" /\ out = input)

\* C5: a formatter that succeeds changed whitespace only: its output without
\* the blanks outside string literals is the input it consumed without them,
\* so every string literal and number keeps its bytes and its place.
OnlyWhitespaceChanges ==
    status = "ok" => Scan(out).sig = Scan(ConsumedInput).sig

OnlyWhitespaceChangesWitness ==
    /\ status = "ok" /\ run = "first" /\ alg = "json" /\ width = 2
    /\ input = <<"{", QUOTE, "a", QUOTE, ":", "1", "}">>
    /\ out = <<"{", NL, SP, SP, QUOTE, "a", QUOTE, ":", SP, "1", NL, "}">>

\* C6: however the input is cut into refill chunks, a formatter ends as it
\* ends on the input delivered in one chunk: the same success or error, the
\* same byte named by the error, the same output.
RefillIndependent ==
    (run = "whole" /\ Over)
        => (Outcome = prev.outcome /\ out = prev.out /\ errChar = prev.ch)

RefillIndependentWitness ==
    /\ run = "whole" /\ status = "ok" /\ prev.outcome = "ok"
    /\ input = Str(<<BACKSLASH, QUOTE>>) /\ out = input

\* The generated documents cut short, and where they are cut.
ProperPrefixes == UNION {{Head0(r, n) : n \in 0..(Len(r) - 1)} : r \in Compact}
PartialKeywords ==
    {<<"n">>, <<"n", "u">>, <<"n", "u", "l">>, <<"t">>, <<"t", "r">>, <<"t", "r", "u">>,
     <<"f">>, <<"f", "a">>, <<"f", "a", "l">>, <<"f", "a", "l", "s">>}
InsideString(p) == Scan(p).mode # "out"
InsideKeyword(p) == ~InsideString(p) /\ \E k \in PartialKeywords : HasSuffix(p, k)
PunctuationRequired(p) ==
    /\ ~InsideString(p) /\ ~InsideKeyword(p)
    /\ Scan(p).depth > 0
    /\ p[Len(p)] \notin {"{", "[", ",", ":"}
Truncated(p) ==
    /\ p \in ProperPrefixes
    /\ InsideString(p) \/ InsideKeyword(p) \/ PunctuationRequired(p)

\* C7: on a well-formed document cut short inside a string, inside a literal
\* keyword, or where a ':', a ',' or a closing bracket has to follow,
\* format_json ends with the unexpected-end-of-stream error.
TruncationReported ==
    (alg = "json" /\ run = "first" /\ Truncated(input) /\ Over) => status = "eof"

\* C8: a pass of skip_whitespace's loop that finds the stream ended returns
\* (so that format_json returns on every finite input, the empty one too).
SkipWhitespaceReturns ==
    [][(status = "running" /\ pc \in {"skip", "key_skip"} /\ AtEof /\ run' = run)
          => pc' \notin {"skip", "key_skip"}]_vars

\* C9: format_json writes an empty object or array at nesting depth d, with or
\* without whitespace between its brackets, as the opening bracket, a newline,
\* width x d spaces and the closing bracket.
EmptyContainerShape ==
    [][LET sc == Scan(ConsumedInput)
           rem == br.buf \o br.rest
           open == sc.sig[Len(sc.sig)]
       IN (/\ alg = "json" /\ status = "running" /\ pc = "match" /\ run' = run
           /\ sc.sig # <<>> /\ rem # <<>>
           /\ <<open, rem[1]>> \in {<<"{", "}">>, <<"[", "]">>})
          => /\ HasSuffix(out, <<open, NL>>)
             /\ out' = (out \o Spaces(width * (sc.depth - 1))) \o <<rem[1]>>
             /\ status' \in {"running", "ok"}]_vars

EmptyContainerShapeWitness ==
    /\ alg = "json" /\ run = "first" /\ status = "ok" /\ width = 2
    /\ input = <<"[", SP, "[", SP, "]", SP, "]", SP>>
    /\ out = <<"[", NL, SP, SP, "[", NL, SP, SP, "]", NL, "]">>

\* C10: when the bytes read for a literal keyword, or for the ':' after a key,
\* are there and differ from the expected ones, the call ends with the error
\* that names the first byte read that differs, and nothing of the token is
\* written.
MismatchReported ==
    [][LET rem == br.buf \o br.rest
           exp == IF pc = "colon" THEN <<":">>
                  ELSE IF pc = "match" /\ Top = "Value" /\ rem # <<>>
                  THEN (IF rem[1] = "n" THEN <<"n", "u", "l", "l">>
                        ELSE IF rem[1] = "t" THEN <<"t", "r", "u", "e">>
                        ELSE IF rem[1] = "f" THEN <<"f", "a", "l", "s", "e">>
                        ELSE <<>>)
                  ELSE <<>>
           diff == {i \in 1..Len(exp) : rem[i] # exp[i]}
       IN (/\ alg = "json" /\ status = "running" /\ run' = run
           /\ exp # <<>> /\ Len(rem) >= Len(exp) /\ diff # {})
          => /\ status' = "invalid"
             /\ out' = out
             /\ \E i \in diff : errChar' = rem[i] /\ \A j \in diff : i <= j]_vars

MismatchReportedWitness ==
    /\ alg = "json" /\ run = "first" /\ status = "invalid"
    /\ input = <<"n", "u", "l", ",">> /\ errChar = "," /\ out = <<>>

\* ------------------------------------------------------------------ the first top-level value
NumberClass == {"0", "1", "2", "3", "4", "5", "6", "7", "8", "9", "-", "+", ".", "e", "E"}

\* The place of the last byte of the first value of s, read as tokens: a
\* container up to the bracket that closes it, a string literal up to its
\* closing quote, a number up to the end of its bytes, a literal keyword by its
\* length; 0 when there is none.
FirstValueEnd(s) ==
    LET starts == {i \in 1..Len(s) : s[i] \notin Blank}
    IN IF starts = {} THEN 0
       ELSE LET i0 == CHOOSE i \in starts : \A j \in starts : i <= j
                c == s[i0]
                ends ==
                    IF c \in {"{", "["}
                    THEN {n \in i0..Len(s) : Scan(Head0(s, n)).depth = 0
                                              /\ Scan(Head0(s, n)).mode = "out"}
                    ELSE IF c = QUOTE
                    THEN {n \in (i0 + 1)..Len(s) : Scan(Head0(s, n)).mode = "out"}
                    ELSE IF c \in NumberClass \ {"+", ".", "e", "E"}
                    THEN {n \in i0..Len(s) :
                             /\ \A j \in (i0 + 1)..n : s[j] \in NumberClass
                             /\ n = Len(s) \/ s[n + 1] \notin NumberClass}
                    ELSE IF c \in {"n", "t"} THEN {i0 + 3} \cap (1..Len(s))
                    ELSE IF c = "f" THEN {i0 + 4} \cap (1..Len(s))
                    ELSE {}
            IN IF ends = {} THEN 0 ELSE CHOOSE n \in ends : \A m \in ends : n <= m

\* C11: format_json returns success when, and only when, its frame stack is
\* empty; it has then consumed the input up to the last byte of the first
\* top-level value and no further, and that byte is the last one it wrote:
\* whatever follows the value is not consumed, not written and not reported.
StopsAfterFirstValue ==
    /\ (alg = "json" /\ status = "running" /\ pc \in {"skip", "match"}) => stack # <<>>
    /\ (alg = "json" /\ status = "ok")
          => /\ stack = <<>>
             /\ Consumed > 0
             /\ Consumed = FirstValueEnd(input)
             /\ out # <<>>
             /\ out[Len(out)] = input[Consumed]

StopsAfterFirstValueWitness ==
    /\ alg = "json" /\ status = "ok" /\ width = 2
    /\ input = <<"[", "]", "1">> /\ Consumed = 2 /\ out = <<"[", NL, "]">>

\* ------------------------------------------------------------------ format_json_fast on malformed input
\* C12: on every input, unmatched closing brackets included, format_json_fast
\* ends with success or with an error value: it never runs Indent::pop on a
\* prefix shorter than one indentation unit (the subtraction of line 131 has
\* not underflowed: checks is still "unknown"), and so never panics.
FastNeverUnderflows ==
    alg = "fast" => (checks = "unknown" /\ status # "panic")

\* ------------------------------------------------------------------ write-back
\* C13: with -w and an input file the call writes to the in-memory buffer and
\* nothing to standard output; the file is created anew only after the call
\* returned success, and then from the buffer; when the call returns an error
\* the file keeps its bytes, the error goes to standard error and the process
\* exits with 1.
WriteBackAfterSuccess ==
    (proc.mode = "cli" /\ proc.write_back /\ proc.named)
        => /\ Stdout = <<>> /\ Buf = out
           /\ proc.created => status = "ok"
           /\ ~proc.created => proc.file = input
           /\ (proc.exited /\ proc.code = 0) => (proc.created /\ proc.file = out)
           /\ status \in {"eof", "unexpected", "invalid"}
                 => /\ proc.file = input
                    /\ proc.exited => (proc.code = 1 /\ proc.stderr = <<status, errChar>>)

WriteBackAfterSuccessWitness ==
    /\ proc.mode = "cli" /\ proc.write_back /\ proc.named /\ alg = "json"
    /\ input = <<"[", "1", "}">> /\ width = 2
    /\ status = "unexpected" /\ out = <<"[", NL, SP, SP, "1">>
    /\ proc.exited /\ proc.code = 1 /\ proc.stderr = <<"unexpected", "}">>
    /\ proc.file = input

\* ------------------------------------------------------------------ the stack and the nesting
\* The frames of the stack that stand for an open container.
OpenFrames == Cardinality({i \in 1..Len(stack) : stack[i] \in {"Object", "Array", "Pair", "Elem"}})

\* C14: at the head of every pass of format_json's loop, on any input, the
\* Object, Array, Pair and Elem frames on the stack are as many as the
\* opening minus the closing brackets consumed (as tokens, outside string
\* literals), and the prefix is that many times the indent width long; so
\* Indent::pop never runs at depth 0, and on success the stack and the prefix
\* are empty and every bracket consumed is closed.
StackMirrorsNesting ==
    alg = "json" =>
        LET depth == Scan(ConsumedInput).depth
        IN /\ (status = "running" /\ pc \in {"skip", "match"})
                 => /\ OpenFrames = depth
                    /\ Len(prefix) = width * depth
                    /\ (Top \in {"Object", "Array"}) => depth >= 1
           /\ ~Underflows /\ status # "panic"
           /\ status = "ok" => (stack = <<>> /\ prefix = <<>> /\ depth = 0)

StackMirrorsNestingWitness ==
    /\ alg = "json" /\ status = "running" /\ pc = "match" /\ width = 2
    /\ input = <<"[", "[", "]", "]">> /\ Consumed = 2
    /\ stack = <<"Elem", "Array">> /\ prefix = <<SP, SP, SP, SP>>

\* ------------------------------------------------------------------ the end of a string literal
\* The backslashes in a row right before the n-th byte of s, the first byte
\* of s (the opening quote) not counted.
BackslashesBefore(s, n) ==
    LET runs == {k \in 0..(n - 2) : \A j \in (n - k)..(n - 1) : s[j] = BACKSLASH}
    IN CHOOSE k \in runs : \A m \in runs : m <= k

\* C15: where a string literal starts, write_string copies the bytes up to and
\* with the first '"' that has an even number (0 too) of backslashes in a row
\* before it, consumes just these bytes, and leaves what follows; the refills
\* of the buffer make no difference; when the stream has no such quote the
\* call ends with the unexpected-end-of-stream error.
StringEndsAtUnescapedQuote ==
    [][LET rem == br.buf \o br.rest
           ends == {n \in 2..Len(rem) : rem[n] = QUOTE /\ BackslashesBefore(rem, n) % 2 = 0}
           lead == IF (pc = "match" /\ Top = "Object") \/ (pc = "fast" /\ new_line)
                   THEN prefix ELSE <<>>
       IN (/\ status = "running" /\ run' = run
           /\ rem # <<>> /\ rem[1] = QUOTE
           /\ pc = "fast" \/ (pc = "match" /\ Top \in {"Value", "Object"}))
          => IF ends = {} THEN status' = "eof"
             ELSE LET n == CHOOSE n \in ends : \A m \in ends : n <= m
                  IN /\ status' \in {"running", "ok"}
                     /\ Len(br'.buf) + Len(br'.rest) = Len(rem) - n
                     /\ out' = (out \o lead) \o Head0(rem, n)]_vars

StringEndsAtUnescapedQuoteWitness ==
    /\ alg = "json" /\ status = "ok" /\ br.cuts = {1, 2, 3}
    /\ input = <<QUOTE, BACKSLASH, BACKSLASH, QUOTE>> /\ out = input

\* ------------------------------------------------------------------ after a member
\* C16: after the value of a member of an object (Pair) or of an array (Elem)
\* format_json takes a ',' (consumed, written, then a newline) or the closing
\* bracket of that container (left unconsumed, a newline written), and pushes
\* the Object or Array frame again; on any other byte, the closing bracket of
\* the other kind too, the call ends with the unexpected-input error naming
\* the byte, and nothing is written.
AfterMemberCommaOrCloser ==
    [][LET rem == br.buf \o br.rest
           closer == IF Top = "Pair" THEN "}" ELSE "]"
           frame == IF Top = "Pair" THEN "Object" ELSE "Array"
       IN (/\ alg = "json" /\ status = "running" /\ pc = "match" /\ run' = run
           /\ Top \in {"Pair", "Elem"} /\ rem # <<>>)
          => IF rem[1] = ","
             THEN /\ out' = out \o <<",", NL>>
                  /\ br'.buf \o br'.rest = Tail0(rem, 1)
                  /\ stack' = Append(Popped, frame) /\ status' = "running"
             ELSE IF rem[1] = closer
             THEN /\ out' = out \o <<NL>>
                  /\ br'.buf \o br'.rest = rem
                  /\ stack' = Append(Popped, frame) /\ status' = "running"
             ELSE /\ status' = "unexpected" /\ errChar' = rem[1]
                  /\ out' = out
                  /\ br'.buf \o br'.rest = rem]_vars

AfterMemberCommaOrCloserWitness ==
    /\ alg = "json" /\ status = "unexpected" /\ errChar = "}" /\ width = 2
    /\ input = <<"[", "1", "}">> /\ out = <<"[", NL, SP, SP, "1">>
    /\ stack = <<>> /\ Consumed = 2

\* ------------------------------------------------------------------ blanks in format_json_fast
\* C17: format_json_fast skips a space, tab, newline or carriage return
\* outside string literals without writing anything: the indentation pending
\* after '{', '[' or ',' waits for the next byte that is written, so inputs
\* that differ in such blanks only give the same output.
FastSkipsBlanks ==
    [][LET rem == br.buf \o br.rest
       IN (/\ alg = "fast" /\ status = "running" /\ run' = run
           /\ rem # <<>> /\ rem[1] \in Blank)
          => (out' = out /\ new_line' = new_line)]_vars

\* ------------------------------------------------------------------ the extent of a number
\* C18: where a value starts with a digit or '-', write_number writes and
\* consumes that byte and the longest run of digits, '-', '+', '.', 'e', 'E'
\* behind it, leaves the byte after the run unconsumed, and succeeds when the
\* stream ends in or right behind the run: a number that is the whole input
\* makes format_json succeed with the number as its output.
NumberRunCopied ==
    [][LET rem == br.buf \o br.rest
           runs == {n \in 1..Len(rem) : \A j \in 2..n : rem[j] \in NumberClass}
       IN (/\ alg = "json" /\ status = "running" /\ pc = "match" /\ run' = run
           /\ Top = "Value" /\ rem # <<>>
           /\ rem[1] \in NumberClass \ {"+", ".", "e", "E"})
          => LET n == CHOOSE n \in runs : \A m \in runs : m <= n
             IN /\ out' = out \o Head0(rem, n)
                /\ br'.buf \o br'.rest = Tail0(rem, n)
                /\ status' = IF Popped = <<>> THEN "ok" ELSE "running"
                /\ (Popped = <<>> /\ out = <<>> /\ n = Len(input)) => out' = input]_vars

NumberRunCopiedWitness ==
    /\ alg = "json" /\ status = "ok" /\ br.cuts = {1}
    /\ input = <<"1", "2">> /\ out = input /\ AtEof

\* ------------------------------------------------------------------ the end-of-stream marker
\* C19: where format_json looks at the next byte, peek_char gives the
\* end-of-stream marker only when the stream has ended: the marker differs
\* from every byte the input can hold, a NUL byte too.
PeekMarksEndOfStream ==
    (alg = "json" /\ status = "running" /\ pc = "match" /\ PeekChar(br) = BAD_CHAR)
        => AtEof

\* ------------------------------------------------------------------ commas
\* C20: format_json takes a ',' right before the closing bracket: the Object
\* or Array frame resumed behind a ',' accepts its closing bracket, which goes
\* on the line after the ',' at the indentation of the container, so `[1,]`
\* and `{"a":1,}` succeed; a ',' where a value or a key has to start (first
\* in an array, behind another ',', right behind '{') ends the call with the
\* unexpected-input error naming it.
TrailingCommaAccepted ==
    [][LET rem == br.buf \o br.rest
           sc == Scan(ConsumedInput)
           afterComma == sc.sig # <<>> /\ sc.sig[Len(sc.sig)] = ","
           at == /\ alg = "json" /\ status = "running" /\ pc = "match" /\ run' = run
                 /\ rem # <<>>
       IN /\ (at /\ afterComma /\ <<Top, rem[1]>> \in {<<"Object", "}">>, <<"Array", "]">>})
               => /\ HasSuffix(out, <<",", NL>>)
                  /\ out' = (out \o Spaces(width * (sc.depth - 1))) \o <<rem[1]>>
                  /\ br'.buf \o br'.rest = Tail0(rem, 1)
                  /\ status' = IF Popped = <<>> THEN "ok" ELSE "running"
          /\ (at /\ rem[1] = "," /\ Top \in {"Value", "Object"})
               => (status' = "unexpected" /\ errChar' = "," /\ out' = out)
          /\ (at /\ rem[1] = "," /\ Top = "Array")
               => /\ stack' = Popped \o <<"Elem", "Value">>
                  /\ br'.buf \o br'.rest = rem
                  /\ status' = "running"
          /\ (alg = "json" /\ run' = run /\ status' # "running")
               => /\ input = <<"[", "1", ",", "]">>
                       => /\ status' = "ok"
                          /\ out' = (<<"[", NL>> \o Spaces(width)) \o <<"1", ",", NL, "]">>
                  /\ input = <<"{", QUOTE, "a", QUOTE, ":", "1", ",", "}">>
                       => /\ status' = "ok"
                          /\ out' = (<<"{", NL>> \o Spaces(width))
                                     \o <<QUOTE, "a", QUOTE, ":", SP, "1", ",", NL, "}">>
                  /\ input \in {<<"[", ",", "1", "]">>, <<"[", "1", ",", ",", "2", "]">>,
                                 <<"{", ",">>}
                       => (status' = "unexpected" /\ errChar' = ",")]_vars

TrailingCommaAcceptedWitness ==
    /\ alg = "json" /\ status = "ok" /\ width = 2
    /\ input = <<"[", "1", ",", "]">>
    /\ out = <<"[", NL, SP, SP, "1", ",", NL, "]">>

====
